---- MODULE Spec2Model ----
(***************************************************************************)
(* LocalHls: mirror an HLS asset tree to disk, then serve it.              *)
(*                                                                         *)
(* A URL is a record [host, segs]: segs is what Url::path_segments()       *)
(* yields (never empty for an http URL; the path "/" is <<"">>, and the    *)
(* path ends in '/' exactly when the last segment is "").                  *)
(*                                                                         *)
(* A PathBuf is the sequence obtained by splitting its string on '/':      *)
(* "" can only be its last element (a trailing separator), because         *)
(* PathBuf::push never writes two separators in a row.  An absolute path   *)
(* starts with the element RootDir.                                        *)
(***************************************************************************)
EXTENDS Integers, Sequences, FiniteSets, TLC

VARIABLES
    cfg,            \* StreamConfig: the configuration file as read at startup
    origin,         \* what the origin has served so far: URL -> content
    fs,             \* the files on disk: records [path, url] (url: whose bytes)
    pc,             \* where main() is
    err,            \* the error main() returned, "" if none
    run,            \* 1 for the first run of the program, 2 for the re-run
    fetched,        \* the requests sent in this run: records [url, headers]
    pending,        \* the requests of this run not yet answered: [url, task]
    written,        \* the files written in this run: records [path, url]
    manifestUrl,    \* handle_media_manifest: manifest_url
    outerBase,      \* handle_media_manifest: the base_url parameter
    variants,       \* handle_master_manifest: playlist.variants
    vi,             \* handle_master_manifest: the loop index (1-based)
    tasks,          \* handle_media_manifest: segment_tasks, in push order
    serverStarted,  \* serve_files has been entered
    unit            \* the Path Resolver's functions applied on their own

mainVars == <<cfg, origin, fs, pc, err, run, fetched, pending, written,
              manifestUrl, outerBase, variants, vi, tasks, serverStarted>>
vars == <<mainVars, unit>>

(***************************************************************************)
(* Bounds of the model.                                                    *)
(***************************************************************************)
MaxUrlSegs == 3
MaxVariants == 2
MaxSegs == 3
MaxRuns == 2

----------------------------------------------------------------------------
(***************************************************************************)
(* Values                                                                  *)
(***************************************************************************)
None == [tag |-> "None"]
Some(v) == [tag |-> "Some", val |-> v]
Ok(v) == [tag |-> "Ok", val |-> v]
Err(e) == [tag |-> "Err", err |-> e]
Panic == [tag |-> "Panic"]

Url(h, s) == [host |-> h, segs |-> s]

Front(s) == SubSeq(s, 1, Len(s) - 1)
Last(s) == s[Len(s)]

\* Segment names of the model's URLs.  DotNames are those that begin with '.'.
DotNames == {".m3u8"}
SegNames == {"a", "b", ".m3u8", ""}

\* str::starts_with('.')
StartsWithDot(name) == name \in DotNames

\* url.path().ends_with('/')
PathEndsWithSlash(url) == Last(url.segs) = ""

----------------------------------------------------------------------------
(***************************************************************************)
(* Path Resolver                                                           *)
(***************************************************************************)

\* main.rs get_filename_from_url.  segments[len - 2] on a one-segment URL
\* indexes outside the vector: the program panics.
FilenameNoSlashCheck(url) ==
    LET segments == url.segs
        name == segments[Len(segments)]
    IN  Some(name)

get_filename_from_url(url) ==
    IF PathEndsWithSlash(url) THEN None
    ELSE LET segments == url.segs
             name == segments[Len(segments)]
         IN  IF StartsWithDot(name) /\ Len(name) > 1
             THEN IF Len(segments) < 2 THEN Panic
                  ELSE Some(segments[Len(segments) - 1] \o name)
             ELSE Some(name)

\* utils.rs get_filename_from_url: the prefix is segments[len - 1], the
\* last segment itself.
utils_get_filename_from_url(url) ==
    IF PathEndsWithSlash(url) THEN None
    ELSE LET segments == url.segs
             name == segments[Len(segments)]
         IN  IF StartsWithDot(name) /\ Len(name) > 0
             THEN Some(segments[Len(segments)] \o name)
             ELSE Some(name)

\* PathBuf::push of a relative piece that holds no separator: a separator is
\* written first unless the path is empty or already ends with one.
PathPush(path, seg) ==
    IF path = <<>> THEN (IF seg = "" THEN <<>> ELSE <<seg>>)
    ELSE IF Last(path) = "" THEN Front(path) \o <<seg>>
    ELSE Append(path, seg)

RECURSIVE PathPushAll(_, _)
PathPushAll(path, segs) ==
    IF segs = <<>> THEN path
    ELSE PathPushAll(PathPush(path, Head(segs)), Tail(segs))

\* The while loop of get_relative_path: the first index (0-based) at which
\* the two vectors differ or one of them ends.
RECURSIVE CommonPrefix(_, _, _)
CommonPrefix(b, t, i) ==
    IF i < Len(b) /\ i < Len(t) /\ b[i + 1] = t[i + 1]
    THEN CommonPrefix(b, t, i + 1)
    ELSE i

\* The loop without its break: counts the positions that agree.
RECURSIVE CommonPrefixNoBreak(_, _, _)
CommonPrefixNoBreak(b, t, i) ==
    IF i < Len(b) /\ i < Len(t)
    THEN CommonPrefixNoBreak(b, t, i + 1)
    ELSE i

RelativePathNoBreak(base, target) ==
    IF base.host # target.host THEN Err("Hosts are different")
    ELSE LET i == CommonPrefixNoBreak(base.segs, target.segs, 0)
         IN  Ok(PathPushAll(<<>>, SubSeq(target.segs, i + 1, Len(target.segs))))

\* get_relative_path without its host comparison.
RelativePathNoHostCheck(base, target) ==
    LET i == CommonPrefix(base.segs, target.segs, 0)
    IN  Ok(PathPushAll(<<>>, SubSeq(target.segs, i + 1, Len(target.segs))))

get_relative_path(base, target) ==
    IF base.host # target.host THEN Err("Hosts are different")
    ELSE LET i == CommonPrefix(base.segs, target.segs, 0)
         IN  Ok(PathPushAll(<<>>, SubSeq(target.segs, i + 1, Len(target.segs))))

\* Url::join's path normalisation: "." is dropped, ".." drops the segment
\* before it, and either of them in last position leaves a trailing "".
RECURSIVE RemoveDotSegments(_, _)
RemoveDotSegments(segs, out) ==
    IF segs = <<>> THEN (IF out = <<>> THEN <<"">> ELSE out)
    ELSE LET s == Head(segs)
             last == Len(segs) = 1
         IN  IF s = ".."
             THEN RemoveDotSegments(Tail(segs),
                      (IF out = <<>> THEN <<>> ELSE Front(out))
                          \o (IF last THEN <<"">> ELSE <<>>))
             ELSE IF s = "."
             THEN RemoveDotSegments(Tail(segs),
                      out \o (IF last THEN <<"">> ELSE <<>>))
             ELSE RemoveDotSegments(Tail(segs), Append(out, s))

(***************************************************************************)
(* A URI as written in a manifest: kind "rel" (gear1/prog.m3u8, ../x.ts),  *)
(* "path" (/x/y.ts) or "url" (https://host/x.ts), with its segments.       *)
(***************************************************************************)
RelRef(segs) == [kind |-> "rel", host |-> "", segs |-> segs]

\* Url::join(reference)
UrlJoin(base, ref) ==
    IF ref.kind = "url" THEN Url(ref.host, RemoveDotSegments(ref.segs, <<>>))
    ELSE IF ref.kind = "path"
    THEN Url(base.host, RemoveDotSegments(ref.segs, <<>>))
    ELSE Url(base.host, RemoveDotSegments(Front(base.segs) \o ref.segs, <<>>))

\* get_base_url: url.join("./")
get_base_url(url) == UrlJoin(url, RelRef(<<".", "">>))

\* Path::join(uri) with the URI's text: an absolute text replaces the path,
\* any other text is appended as it stands (".." is kept, the scheme and the
\* host of an absolute URL become directories).
RootDir == "/"
PathJoinRef(path, ref) ==
    IF ref.kind = "path" THEN <<RootDir>> \o ref.segs
    ELSE IF ref.kind = "url"
    THEN PathPushAll(path, <<"https:", ref.host>> \o ref.segs)
    ELSE PathPushAll(path, ref.segs)

\* PathBuf::pop: the path becomes its parent; FALSE (and no change) when it
\* has none.
PathPop(path) ==
    LET p == IF path # <<>> /\ Last(path) = "" THEN Front(path) ELSE path
    IN  IF p = <<>> THEN [popped |-> FALSE, path |-> path]
        ELSE [popped |-> TRUE, path |-> Front(p)]

\* Path::join(path) with a relative path: joining the empty path leaves a
\* trailing separator.
PathJoin(p, q) == IF q = <<>> THEN PathPush(p, "") ELSE PathPushAll(p, q)

IsPrefix(p, q) == Len(p) <= Len(q) /\ SubSeq(q, 1, Len(p)) = p

----------------------------------------------------------------------------
(***************************************************************************)
(* The configuration file and the origin                                   *)
(***************************************************************************)
\* args.output
OutputDir == <<"out">>

RootUrls ==
    { Url("h", <<"a", "master.m3u8">>),
      Url("h", <<"a", "">>),
      Url("h", <<".m3u8">>) }

\* The keys of the configuration file.  Args (main.rs 15-28) has the fields
\* url, output, headers and port: serde drops the keys duration and count.
HeaderChoices == {None, Some(<<"Authorization: t">>)}
FetchLengths ==
    {[mode |-> "all", n |-> 0]}
        \cup {[mode |-> "count", n |-> n] : n \in {1}}
        \cup {[mode |-> "duration", n |-> t] : t \in {7}}

\* The configuration files tried: every root URL with no headers and no
\* limit, and the ordinary root URL with headers or with a limit.
PlainConfig(u) == [url |-> u, headers |-> None, fetch |-> [mode |-> "all", n |-> 0]]
Configs ==
    {PlainConfig(u) : u \in RootUrls}
        \cup {[PlainConfig(Url("h", <<"a", "master.m3u8">>)) EXCEPT !.headers = h] :
                 h \in HeaderChoices}
        \cup {[PlainConfig(Url("h", <<"a", "master.m3u8">>)) EXCEPT !.fetch = f] :
                 f \in FetchLengths}

\* Args as deserialised: what the program can read of the file.
Args(c) == [url |-> c.url, output |-> OutputDir, headers |-> c.headers]

\* What the origin can answer.  The i-th segment of a playlist is segI.ts
\* and lasts 4 seconds; the j-th variant of a master is gearJ/prog.m3u8.
Segment(i) == [uri |-> RelRef(<<"seg" \o ToString(i) \o ".ts">>), duration |-> 4]
Variant(j) == [uri |-> RelRef(<<"gear" \o ToString(j), "prog.m3u8">>)]

\* URIs a manifest may also hold: an absolute URL on another host, an
\* absolute path, a path that climbs with "..".
UrlRef(host, segs) == [kind |-> "url", host |-> host, segs |-> segs]
PathRef(segs) == [kind |-> "path", host |-> "", segs |-> segs]

\* Playlists with such URIs: one segment listed twice; a segment on another
\* host; segments outside the manifest's directory.
SpecialPlaylists ==
    { [kind |-> "media", segments |-> <<Segment(1), Segment(1)>>],
      [kind |-> "media", segments |->
          <<[uri |-> UrlRef("x", <<"seg1.ts">>), duration |-> 4]>>],
      [kind |-> "media", segments |->
          <<[uri |-> PathRef(<<"abs.ts">>), duration |-> 4],
            [uri |-> RelRef(<<"..", "..", "up.ts">>), duration |-> 4]>>] }
SpecialMasters ==
    { [kind |-> "master", variants |->
          <<[uri |-> UrlRef("x", <<"gear1", "prog.m3u8">>)]>>] }

MediaPlaylists ==
    {[kind |-> "media", segments |-> [i \in 1..n |-> Segment(i)]] : n \in 0..MaxSegs}
MasterPlaylists ==
    {[kind |-> "master", variants |-> [j \in 1..n |-> Variant(j)]] : n \in 0..MaxVariants}
        \cup SpecialMasters
Garbage == [kind |-> "garbage"]

\* The special playlists are tried at the root URL.
RootContents == MasterPlaylists \cup MediaPlaylists \cup SpecialPlaylists \cup {Garbage}
VariantContents ==
    MediaPlaylists \cup {Garbage}
        \cup {[kind |-> "master", variants |-> <<>>]}

\* The origin is unchanged while the program runs and between runs: a URL
\* that was served once is served with the same bytes again.
Served(url, choices) ==
    IF url \in DOMAIN origin THEN {origin[url]} ELSE choices
Remember(url, content) ==
    IF url \in DOMAIN origin THEN origin ELSE (url :> content) @@ origin

----------------------------------------------------------------------------
(***************************************************************************)
(* Fetcher and file writes                                                 *)
(***************************************************************************)
\* download_file(client, url, headers): the request that is sent.
Request(url, headers) == [url |-> url, headers |-> headers]

\* A request that is out: its URL and the segment task that awaits it (0:
\* main or handle_media_manifest itself).
InFlight(url, task) == [url |-> url, task |-> task]

\* save_file: File::create fails on a path that names a directory (the
\* output directory, a path with a trailing separator, a directory that
\* holds a file), and create_dir_all fails when a file is in the way.
CanCreate(path) ==
    /\ path # <<>>
    /\ Last(path) # ""
    /\ path # OutputDir
    /\ \A f \in fs : f.path # path =>
           ~IsPrefix(path, f.path) /\ ~IsPrefix(f.path, path)

\* A write that leaves nothing else behind.
FileWrittenAlone(files, path, url) == {[path |-> path, url |-> url]}

FileWritten(files, path, url) ==
    {f \in files : f.path # path} \cup {[path |-> path, url |-> url]}

----------------------------------------------------------------------------
(***************************************************************************)
(* Mirror Engine                                                           *)
(***************************************************************************)
NoUrl == Url("", <<>>)
UnitIdle == [op |-> "idle"]

Init ==
    /\ cfg \in Configs
    /\ origin = <<>>
    /\ fs = {}
    /\ pc = "start"
    /\ err = ""
    /\ run = 1
    /\ fetched = {}
    /\ pending = {}
    /\ written = {}
    /\ manifestUrl = NoUrl
    /\ outerBase = NoUrl
    /\ variants = <<>>
    /\ vi = 0
    /\ tasks = <<>>
    /\ serverStarted = FALSE
    /\ unit = UnitIdle

\* main returns Err(e): the process exits.
Fail(e) ==
    /\ pc' = "failed"
    /\ err' = e

\* main, up to the first await: the root manifest is requested.
StartRun ==
    /\ pc = "start"
    /\ fetched' = fetched \cup {Request(Args(cfg).url, None)}
    /\ pending' = pending \cup {InFlight(Args(cfg).url, 0)}
    /\ pc' = "root_fetch"
    /\ UNCHANGED <<cfg, origin, fs, err, run, written, manifestUrl, outerBase,
                   variants, vi, tasks, serverStarted, unit>>

\* main, from the root manifest's response to the call of
\* handle_master_manifest or handle_media_manifest.
RootResponse ==
    /\ pc = "root_fetch"
    /\ pending' = pending \ {InFlight(cfg.url, 0)}
    /\ \/ /\ Fail("Failed to download file")
          /\ UNCHANGED <<origin, fs, written, manifestUrl, outerBase, variants, vi>>
       \/ \E content \in Served(cfg.url, RootContents) :
            /\ origin' = Remember(cfg.url, content)
            /\ \/ /\ content.kind = "master"
                  /\ LET name == get_filename_from_url(cfg.url)
                         master_file_path == PathPush(OutputDir, name.val)
                     IN  IF name = None
                         THEN /\ Fail("Failed to get filename from URL")
                              /\ UNCHANGED <<fs, written, variants, vi>>
                         ELSE IF name = Panic
                         THEN /\ pc' = "panicked"
                              /\ UNCHANGED <<err, fs, written, variants, vi>>
                         ELSE IF ~CanCreate(master_file_path)
                         THEN /\ Fail("IOFailure")
                              /\ UNCHANGED <<fs, written, variants, vi>>
                         ELSE /\ fs' = FileWritten(fs, master_file_path, cfg.url)
                              /\ written' = written \cup
                                     {[path |-> master_file_path, url |-> cfg.url]}
                              /\ variants' = content.variants
                              /\ vi' = 1
                              /\ pc' = "master_loop"
                              /\ UNCHANGED err
                  /\ UNCHANGED <<manifestUrl, outerBase>>
               \/ /\ content.kind = "media"
                  /\ manifestUrl' = cfg.url
                  /\ outerBase' = get_base_url(cfg.url)
                  /\ pc' = "media_enter"
                  /\ UNCHANGED <<err, fs, written, variants, vi>>
               \/ /\ content.kind = "garbage"
                  /\ Fail("Failed to parse m3u8 playlist")
                  /\ UNCHANGED <<fs, written, manifestUrl, outerBase, variants, vi>>
    /\ UNCHANGED <<cfg, run, fetched, tasks, serverStarted, unit>>

\* handle_master_manifest: one turn of the loop over the variants, up to the
\* call of handle_media_manifest; after the last variant it returns Ok.
MasterNext ==
    /\ pc = "master_loop"
    /\ \/ /\ vi > Len(variants)
          /\ pc' = "serve"
          /\ UNCHANGED <<manifestUrl, outerBase>>
       \/ /\ vi <= Len(variants)
          /\ LET base_url == get_base_url(cfg.url)
             IN  /\ manifestUrl' = UrlJoin(base_url, variants[vi].uri)
                 /\ outerBase' = base_url
          /\ pc' = "media_enter"
    /\ UNCHANGED <<cfg, origin, fs, err, run, fetched, pending, written,
                   variants, vi, tasks, serverStarted, unit>>

\* handle_media_manifest, up to its first await: the relative path is
\* computed and the manifest is requested.
MediaEnter ==
    /\ pc = "media_enter"
    /\ \/ /\ get_relative_path(outerBase, manifestUrl).tag = "Err"
          /\ Fail(get_relative_path(outerBase, manifestUrl).err)
          /\ UNCHANGED <<fetched, pending>>
       \/ /\ get_relative_path(outerBase, manifestUrl).tag = "Ok"
          /\ fetched' = fetched \cup {Request(manifestUrl, None)}
          /\ pending' = pending \cup {InFlight(manifestUrl, 0)}
          /\ pc' = "media_fetch"
          /\ UNCHANGED err
    /\ UNCHANGED <<cfg, origin, fs, run, written, manifestUrl, outerBase,
                   variants, vi, tasks, serverStarted, unit>>

\* handle_media_manifest 142-145: the directory the segments are written
\* to, from the manifest's relative path.
SegmentOutputDir(path) ==
    IF PathPop(path).popped THEN PathJoin(OutputDir, PathPop(path).path)
    ELSE OutputDir

\* handle_media_manifest 149: the URL the segment URIs are joined to.
SegmentBaseUrl == get_base_url(cfg.url)

\* handle_media_manifest 151-164: one task per segment of the manifest, in
\* manifest order.  A task is "new" until it is polled, "sent" while its
\* request is out, then "ok" or "err"; when the queue is dropped, a "sent"
\* task becomes "dropped" and a "new" one "unpolled".
\* Three fields record history only: existed (the file was on disk when the
\* loop reached the segment), firstFail (the task was the first of its
\* manifest to fail, in time) and returned (the task's result is the one
\* "result?" returned with).
SegmentTasks(manifest, output_dir, files) ==
    [i \in 1..Len(manifest.segments) |->
        [uri |-> manifest.segments[i].uri,
         url |-> UrlJoin(SegmentBaseUrl, manifest.segments[i].uri),
         path |-> PathJoinRef(output_dir, manifest.segments[i].uri),
         st |-> "new",
         err |-> "",
         existed |-> \E f \in files :
                        f.path = PathJoinRef(output_dir, manifest.segments[i].uri),
         firstFail |-> FALSE,
         returned |-> FALSE]]

\* handle_media_manifest, from the manifest's response to the wait for the
\* segment tasks.
MediaResponse ==
    /\ pc = "media_fetch"
    /\ pending' = pending \ {InFlight(manifestUrl, 0)}
    /\ \/ /\ Fail("Failed to download file")
          /\ UNCHANGED <<origin, fs, written, tasks>>
       \/ \E content \in Served(manifestUrl, VariantContents) :
            LET path == get_relative_path(outerBase, manifestUrl).val
                media_file_path == PathJoin(OutputDir, path)
            IN  /\ origin' = Remember(manifestUrl, content)
                /\ IF ~CanCreate(media_file_path)
                   THEN /\ Fail("IOFailure")
                        /\ UNCHANGED <<fs, written, tasks>>
                   ELSE /\ fs' = FileWritten(fs, media_file_path, manifestUrl)
                        /\ written' = written \cup
                               {[path |-> media_file_path, url |-> manifestUrl]}
                        /\ IF content.kind = "master"
                           THEN /\ Fail("Trying to process master playlist as media list")
                                /\ UNCHANGED tasks
                           ELSE IF content.kind # "media"
                           THEN /\ Fail("Not a media playlist")
                                /\ UNCHANGED tasks
                           ELSE /\ tasks' = SegmentTasks(content, SegmentOutputDir(path),
                                                FileWritten(fs, media_file_path, manifestUrl))
                                /\ pc' = IF content.segments = <<>>
                                         THEN "media_done" ELSE "media_await"
                                /\ UNCHANGED err
    /\ UNCHANGED <<cfg, run, fetched, manifestUrl, outerBase, variants, vi,
                   serverStarted, unit>>

\* The first poll of a segment task: its request is sent.
TaskStart(i) ==
    /\ pc = "media_await"
    /\ tasks[i].st = "new"
    /\ tasks' = [tasks EXCEPT ![i].st = "sent"]
    /\ fetched' = fetched \cup {Request(tasks[i].url, None)}
    /\ pending' = pending \cup {InFlight(tasks[i].url, i)}
    /\ UNCHANGED <<cfg, origin, fs, pc, err, run, written, manifestUrl,
                   outerBase, variants, vi, serverStarted, unit>>

\* FuturesOrdered yields results in push order: the first task, from k on,
\* whose result the loop "while let Some(result) = ... { result?; }" cannot
\* pass yet (it is not finished, or it failed); Len + 1 when there is none.
\* The loop with its results ignored ("result;" for "result?;"): a failed
\* task is passed like a finished one.
RECURSIVE FirstUnfinished(_, _)
FirstUnfinished(ts, k) ==
    IF k > Len(ts) \/ ts[k].st \notin {"ok", "err"} THEN k
    ELSE FirstUnfinished(ts, k + 1)

\* The loop taken once ("if let" for "while let"): only the result of the
\* task at k is awaited.
FirstAfterHead(ts, k) ==
    IF k <= Len(ts) /\ ts[k].st = "ok" THEN Len(ts) + 1 ELSE k

\* An unordered queue (FuturesUnordered): a failed task is yielded as soon
\* as it fails, whatever its position.
FirstErrAnywhere(ts, k) ==
    LET stop == {i \in k..Len(ts) : ts[i].st = "err"}
        wait == {i \in k..Len(ts) : ts[i].st # "ok"}
        least(S) == CHOOSE i \in S : \A j \in S : i <= j
    IN  IF stop # {} THEN least(stop)
        ELSE IF wait # {} THEN least(wait)
        ELSE Len(ts) + 1

RECURSIVE FirstNotOk(_, _)
FirstNotOk(ts, k) ==
    IF k > Len(ts) \/ ts[k].st # "ok" THEN k ELSE FirstNotOk(ts, k + 1)

Dropped(ts) ==
    [j \in 1..Len(ts) |->
        IF ts[j].st = "sent" THEN [ts[j] EXCEPT !.st = "dropped"]
        ELSE IF ts[j].st = "new" THEN [ts[j] EXCEPT !.st = "unpolled"]
        ELSE ts[j]]

\* A segment task's request is answered: the task saves the file and
\* finishes, and the wait loop takes every result that is now due.
TaskFinish(i) ==
    /\ pc = "media_await"
    /\ tasks[i].st = "sent"
    /\ \E answer \in {"success", "failure"} :
         LET t == tasks[i]
             e == IF answer = "failure" THEN "Failed to download file"
                  ELSE IF ~CanCreate(t.path) THEN "IOFailure"
                  ELSE ""
             ts == [tasks EXCEPT ![i].st = IF e = "" THEN "ok" ELSE "err",
                                 ![i].err = e,
                                 ![i].firstFail =
                                     e # "" /\ \A j \in 1..Len(tasks) : tasks[j].st # "err"]
             k == FirstNotOk(ts, 1)
         IN  /\ pending' = pending \ {InFlight(t.url, i)}
             /\ IF e = ""
                THEN /\ fs' = FileWritten(fs, t.path, t.url)
                     /\ written' = written \cup {[path |-> t.path, url |-> t.url]}
                ELSE UNCHANGED <<fs, written>>
             /\ IF k > Len(ts)
                THEN /\ tasks' = ts
                     /\ pc' = "media_done"
                     /\ UNCHANGED err
                ELSE IF ts[k].st = "err"
                THEN /\ tasks' = [Dropped(ts) EXCEPT ![k].returned = TRUE]
                     /\ Fail(ts[k].err)
                ELSE /\ tasks' = ts
                     /\ UNCHANGED <<pc, err>>
    /\ UNCHANGED <<cfg, origin, run, fetched, manifestUrl, outerBase,
                   variants, vi, serverStarted, unit>>

\* handle_media_manifest returns Ok: to the loop of handle_master_manifest,
\* or to main when the root is a media manifest.
MediaReturn ==
    /\ pc = "media_done"
    /\ tasks' = <<>>
    /\ IF variants # <<>>
       THEN /\ vi' = vi + 1
            /\ pc' = "master_loop"
       ELSE /\ pc' = "serve"
            /\ UNCHANGED vi
    /\ UNCHANGED <<cfg, origin, fs, err, run, fetched, pending, written,
                   manifestUrl, outerBase, variants, serverStarted, unit>>

\* main 266: serve_files runs until the process is stopped.
ServeFiles ==
    /\ pc = "serve"
    /\ serverStarted' = TRUE
    /\ pc' = "serving"
    /\ UNCHANGED <<cfg, origin, fs, err, run, fetched, pending, written,
                   manifestUrl, outerBase, variants, vi, tasks, unit>>

\* The server is stopped and the program is run again with the same
\* configuration file, on the same output directory.
Rerun ==
    /\ pc = "serving"
    /\ run < MaxRuns
    /\ run' = run + 1
    /\ pc' = "start"
    /\ fetched' = {}
    /\ pending' = {}
    /\ written' = {}
    /\ manifestUrl' = NoUrl
    /\ outerBase' = NoUrl
    /\ variants' = <<>>
    /\ vi' = 0
    /\ tasks' = <<>>
    /\ serverStarted' = FALSE
    /\ UNCHANGED <<cfg, origin, fs, err, unit>>

Next ==
    \/ StartRun
    \/ RootResponse
    \/ MasterNext
    \/ MediaEnter
    \/ MediaResponse
    \/ \E i \in 1..Len(tasks) : TaskStart(i)
    \/ \E i \in 1..Len(tasks) : TaskFinish(i)
    \/ MediaReturn
    \/ ServeFiles
    \/ Rerun

Spec == Init /\ [][Next]_vars

\* The engine at rest, while the Path Resolver is exercised on its own.
MainIdle ==
    /\ cfg = [url |-> NoUrl, headers |-> None, fetch |-> [mode |-> "all", n |-> 0]]
    /\ origin = <<>>
    /\ fs = {}
    /\ pc = "idle"
    /\ err = ""
    /\ run = 1
    /\ fetched = {}
    /\ pending = {}
    /\ written = {}
    /\ manifestUrl = NoUrl
    /\ outerBase = NoUrl
    /\ variants = <<>>
    /\ vi = 0
    /\ tasks = <<>>
    /\ serverStarted = FALSE

----------------------------------------------------------------------------
(***************************************************************************)
(* The Path Resolver on its own: the inputs are drawn from all URLs of up  *)
(* to MaxUrlSegs segments, and one step applies one function.              *)
(***************************************************************************)
SegSeqs == UNION {[1..n -> SegNames] : n \in 1..MaxUrlSegs}
UnitUrls(hosts) == {Url(h, s) : h \in hosts, s \in SegSeqs}

UnitInit ==
    /\ MainIdle
    /\ unit \in {[op |-> "input", base |-> b, target |-> t, out |-> None] :
                 b \in UnitUrls({"h"}), t \in UnitUrls({"h", "x"})}

UnitRelativePath ==
    /\ unit.op = "input"
    /\ unit' = [unit EXCEPT !.op = "get_relative_path",
                            !.out = get_relative_path(unit.base, unit.target)]
    /\ UNCHANGED mainVars

UnitFilename ==
    /\ unit.op = "input"
    /\ unit' = [unit EXCEPT !.op = "get_filename_from_url",
                            !.out = get_filename_from_url(unit.target)]
    /\ UNCHANGED mainVars

UnitFilenameUtils ==
    /\ unit.op = "input"
    /\ unit' = [unit EXCEPT !.op = "utils_get_filename_from_url",
                            !.out = utils_get_filename_from_url(unit.target)]
    /\ UNCHANGED mainVars

UnitNext == UnitRelativePath \/ UnitFilename \/ UnitFilenameUtils

SpecUnit == UnitInit /\ [][UnitNext]_vars

----------------------------------------------------------------------------
(***************************************************************************)
(* Properties                                                              *)
(***************************************************************************)
Min(a, b) == IF a < b THEN a ELSE b

\* The segment tasks whose request has been sent.
Requested(t) == t.st \in {"sent", "ok", "err", "dropped"}

\* The root manifest was served and parsed as this kind.
RootKind(k) == cfg.url \in DOMAIN origin /\ origin[cfg.url].kind = k

\* The media manifest handle_media_manifest is working on.
CurrentSegments == origin[manifestUrl].segments

\* C1: a second run of the program, after a first run that completed and
\* with the origin unchanged, sends no request at all.
C1_SecondRunFetchesNothing == run > 1 => fetched = {}

\* C2: the URL a segment is fetched from is its URI joined to the base URL
\* of the media manifest that lists it.
C2_SegmentJoinedToMediaBase ==
    \A i \in 1..Len(tasks) :
        Requested(tasks[i]) =>
            tasks[i].url = UrlJoin(get_base_url(manifestUrl), tasks[i].uri)

\* C3: every media manifest and segment file is written at the output
\* directory joined with RelativePath(Base URL, the URL it was fetched from).
C3_PathMatchesUrl ==
    \A w \in written :
        ~(w.url = cfg.url /\ RootKind("master")) =>
            /\ get_relative_path(get_base_url(cfg.url), w.url).tag = "Ok"
            /\ w.path = PathJoin(OutputDir,
                            get_relative_path(get_base_url(cfg.url), w.url).val)

\* The number of leading segments whose cumulative duration first reaches
\* the threshold; all of them when it is never reached.
RECURSIVE DurationPrefixLen(_, _, _, _)
DurationPrefixLen(segments, threshold, k, sum) ==
    IF k >= Len(segments) THEN Len(segments)
    ELSE IF sum + segments[k + 1].duration >= threshold THEN k + 1
    ELSE DurationPrefixLen(segments, threshold, k + 1,
                           sum + segments[k + 1].duration)

\* Exactly the first n segments of the current media manifest are fetched:
\* none after them is requested, and all of them are there when media
\* handling is done.
FetchesExactlyFirst(n) ==
    /\ \A i \in 1..Len(tasks) : Requested(tasks[i]) => i <= n
    /\ pc = "media_done" => \A i \in 1..n : tasks[i].st = "ok"

\* C4: in duration mode the segments fetched are the leading segments up to
\* and including the first at which the cumulative duration reaches T.
C4_DurationMode ==
    (cfg.fetch.mode = "duration" /\ pc \in {"media_await", "media_done"}) =>
        FetchesExactlyFirst(DurationPrefixLen(CurrentSegments, cfg.fetch.n, 0, 0))

\* C5: in count mode exactly the min(segment_count, N) leading segments of
\* each media manifest are fetched.
C5_CountMode ==
    (cfg.fetch.mode = "count" /\ pc \in {"media_await", "media_done"}) =>
        FetchesExactlyFirst(Min(Len(CurrentSegments), cfg.fetch.n))

\* C6: a root URL whose path ends in '/' and whose bytes are a master
\* manifest makes the run fail with the filename error; nothing but the
\* root was requested, no file was written, the server is not started.
C6_SlashMasterFailsEarly ==
    (PathEndsWithSlash(cfg.url) /\ RootKind("master")) =>
        /\ pc = "failed"
        /\ err = "Failed to get filename from URL"
        /\ fetched = {Request(cfg.url, None)}
        /\ written = {}
        /\ fs = {}
        /\ ~serverStarted

C6_Witness ==
    /\ PathEndsWithSlash(cfg.url)
    /\ RootKind("master")
    /\ origin[cfg.url].variants # <<>>
    /\ pc = "failed"

\* C7: when the server is started, every request of the run has been
\* answered and its bytes written, every variant has been handled, no
\* segment task is left, and no handler returned an error.
C7_ServerAfterMirroring ==
    serverStarted =>
        /\ pc = "serving"
        /\ err = ""
        /\ pending = {}
        /\ tasks = <<>>
        /\ variants # <<>> => vi > Len(variants)
        /\ \A r \in fetched : \E w \in written : w.url = r.url

C7_Witness ==
    /\ serverStarted
    /\ Len(variants) >= 2
    /\ Cardinality(written) >= 5

\* C8: every request carries the headers of the configuration.
C8_RequestsCarryHeaders ==
    \A r \in fetched : r.headers = Args(cfg).headers

\* The claim's FilenameOf: None exactly when the path ends in '/'; else the
\* last segment, prefixed with the segment before it when it begins with '.'.
FilenameOfAsClaimed(url, out) ==
    LET segments == url.segs
        last == Last(segments)
    IN  /\ out = None <=> last = ""
        /\ (last # "" /\ ~StartsWithDot(last)) => out = Some(last)
        /\ (StartsWithDot(last) /\ Len(segments) >= 2) =>
               out = Some(segments[Len(segments) - 1] \o last)

\* C9: FilenameOf returns None iff the path ends in '/', else the last
\* segment, a last segment beginning with '.' being prefixed with the
\* second-to-last segment; of both get_filename_from_url of the repository.
C9_FilenameOf ==
    unit.op \in {"get_filename_from_url", "utils_get_filename_from_url"} =>
        FilenameOfAsClaimed(unit.target, unit.out)

\* The length of the longest common prefix of two sequences.
LongestCommonPrefixLen(b, t) ==
    CHOOSE k \in 0..Min(Len(b), Len(t)) :
        /\ SubSeq(b, 1, k) = SubSeq(t, 1, k)
        /\ \A j \in (k + 1)..Min(Len(b), Len(t)) : SubSeq(b, 1, j) # SubSeq(t, 1, j)

SuffixAfterCommonPrefix(b, t) ==
    SubSeq(t, LongestCommonPrefixLen(b, t) + 1, Len(t))

NonEmpty(s) == s # ""

\* A relative path's text: its pieces joined with '/'.
RECURSIVE JoinSlash(_)
JoinSlash(segs) ==
    IF segs = <<>> THEN ""
    ELSE IF Len(segs) = 1 THEN segs[1]
    ELSE segs[1] \o "/" \o JoinSlash(Tail(segs))

\* C10 as amended: for URLs sharing a host, the components of
\* RelativePath(base, target) are exactly the non-empty segments of the
\* suffix of target's segments that follows the longest common segment
\* prefix of base and target, in order.
C10_RelativePathComponents ==
    (unit.op = "get_relative_path" /\ unit.base.host = unit.target.host) =>
        /\ unit.out.tag = "Ok"
        /\ SelectSeq(unit.out.val, NonEmpty)
               = SelectSeq(SuffixAfterCommonPrefix(unit.base.segs, unit.target.segs),
                           NonEmpty)

C10_Witness ==
    /\ unit.op = "get_relative_path"
    /\ unit.base = Url("h", <<"a", "">>)
    /\ unit.target = Url("h", <<"a", "b", ".m3u8">>)
    /\ unit.out = Ok(<<"b", ".m3u8">>)

\* C10: for URLs sharing a host, RelativePath(base, target) is exactly the
\* suffix of target's segments that follows the longest common segment
\* prefix of base and target.
C10_RelativePathIsSuffix ==
    (unit.op = "get_relative_path" /\ unit.base.host = unit.target.host) =>
        /\ unit.out.tag = "Ok"
        /\ JoinSlash(unit.out.val)
               = JoinSlash(SuffixAfterCommonPrefix(unit.base.segs, unit.target.segs))

\* C11: for every pair of URLs whose hosts differ, RelativePath(base, target)
\* fails with the host-mismatch error and returns no path, whatever the
\* two segment sequences are.
C11_HostMismatchFails ==
    (unit.op = "get_relative_path" /\ unit.base.host # unit.target.host) =>
        unit.out = Err("Hosts are different")

C11_Witness ==
    /\ unit.op = "get_relative_path"
    /\ unit.base = Url("h", <<"a", "b">>)
    /\ unit.target = Url("x", <<"a", "b">>)
    /\ unit.out = Err("Hosts are different")

\* C12: a segment whose on-disk path already exists when the segment loop
\* reaches it is never fetched: a fetch task is dispatched only for the
\* segments whose path does not exist yet.
C12_SkipIfExists ==
    \A i \in 1..Len(tasks) : tasks[i].existed => ~Requested(tasks[i])

\* The file handle_media_manifest saves the current manifest to.
MediaFilePath == PathJoin(OutputDir, get_relative_path(outerBase, manifestUrl).val)
OnDisk(path) == \E f \in fs : f.path = path

\* C13: when handle_media_manifest reports done, every segment task it
\* dispatched has completed successfully: the media manifest file and the
\* file of every segment exist on disk and no task is in flight.
C13_DoneAfterAllSegments ==
    pc = "media_done" =>
        /\ OnDisk(MediaFilePath)
        /\ \A i \in 1..Len(tasks) : tasks[i].st = "ok" /\ OnDisk(tasks[i].path)
        /\ pending = {}

C13_Witness ==
    /\ pc = "media_done"
    /\ variants # <<>>
    /\ Len(tasks) >= 2
    /\ \A i \in 1..Len(tasks) : OnDisk(tasks[i].path)

\* C14 as amended: the segment results are taken in manifest order.  The
\* wait goes on while a failed task has an unfinished task before it; it
\* is aborted by the failed task of lowest manifest position, once every
\* task before it has completed successfully, and that task's error is the
\* one returned.
C14_FirstFailureInManifestOrderAborts ==
    /\ pc = "media_await" =>
          \A i \in 1..Len(tasks) : tasks[i].st = "err" =>
              \E j \in 1..(i - 1) : tasks[j].st \in {"new", "sent"}
    /\ \A i \in 1..Len(tasks) :
          (tasks[i].st = "err" /\ \A j \in 1..(i - 1) : tasks[j].st = "ok") =>
              /\ tasks[i].returned
              /\ pc = "failed"
              /\ err = tasks[i].err
    /\ \A i \in 1..Len(tasks) :
          tasks[i].returned =>
              tasks[i].st = "err" /\ \A j \in 1..(i - 1) : tasks[j].st = "ok"

\* Two tasks failed, the later one of the manifest first: the error
\* returned is the earlier one's.
C14_Witness ==
    /\ pc = "failed"
    /\ Len(tasks) >= 2
    /\ tasks[1].st = "err" /\ tasks[1].returned /\ ~tasks[1].firstFail
    /\ tasks[2].st = "err" /\ tasks[2].firstFail

\* C14: the first task to fail, in time, aborts the wait and its error is
\* the one returned, whatever the position of its segment and whether or
\* not tasks of earlier segments are still pending.
C14_FirstFailureInTimeAborts ==
    /\ pc = "media_await" => \A i \in 1..Len(tasks) : tasks[i].st # "err"
    /\ \A i \in 1..Len(tasks) : tasks[i].returned => tasks[i].firstFail

\* The file a completed segment task leaves.
SegmentFile(t) == [path |-> t.path, url |-> t.url]
CompletedFiles == {SegmentFile(tasks[i]) : i \in {j \in 1..Len(tasks) : tasks[j].st = "ok"}}

VariantUrl(j) == UrlJoin(get_base_url(cfg.url), variants[j].uri)

\* C16: the variants of a master are handled strictly one after the other.
\* No request of a later variant is made while variant vi is handled or
\* after its handling failed; the manifest of a variant is requested only
\* when no segment task of the variant before it is left; and every
\* request in flight (or dropped with the queue, after a failure) is the
\* current manifest's or one of its segment tasks'.
C16_VariantsSequential ==
    variants # <<>> =>
        /\ \A j \in 1..Len(variants) :
              j > vi => \A r \in fetched : r.url # VariantUrl(j)
        /\ pc = "media_fetch" =>
              tasks = <<>> /\ pending = {InFlight(manifestUrl, 0)}
        /\ \A p \in pending :
              \/ p = InFlight(manifestUrl, 0)
              \/ /\ p.task \in 1..Len(tasks)
                 /\ tasks[p.task].st \in {"sent", "dropped"}
                 /\ tasks[p.task].url = p.url

\* The second variant's manifest is requested, the first variant's
\* segments being all on disk.
C16_Witness ==
    /\ pc = "media_fetch"
    /\ vi = 2
    /\ Len(origin[VariantUrl(1)].segments) >= 2
    /\ \E w \in written : w.url = UrlJoin(SegmentBaseUrl, Segment(2).uri)
    /\ Request(VariantUrl(2), None) \in fetched

\* C17: two segment tasks in flight at the same time never write to the
\* same on-disk path, also when a media manifest lists a segment URI more
\* than once.
C17_NoTwoWritersOfOnePath ==
    \A i, j \in 1..Len(tasks) :
        (i # j /\ tasks[i].st = "sent" /\ tasks[j].st = "sent") =>
            tasks[i].path # tasks[j].path

\* C18: a variant URI or segment URI that resolves to another host than
\* the root URL's makes the run fail with the host-mismatch error, and the
\* foreign URL is never requested nor written.
C18_CrossHostNeverFetched ==
    /\ \A r \in fetched : r.url.host = cfg.url.host
    /\ \A w \in written : w.url.host = cfg.url.host
    /\ \A i \in 1..Len(tasks) :
          tasks[i].url.host # cfg.url.host => pc = "failed" /\ err = "Hosts are different"
    /\ (pc \notin {"start", "root_fetch", "master_loop", "media_enter"}
           /\ manifestUrl # NoUrl /\ manifestUrl.host # cfg.url.host)
          => pc = "failed" /\ err = "Hosts are different"

\* C19: FilenameOf is total on the URLs that have at least one path
\* segment: it returns None or a name and never indexes outside the
\* segment sequence, https://host/.m3u8 included.
C19_FilenameOfTotal ==
    unit.op \in {"get_filename_from_url", "utils_get_filename_from_url"} =>
        unit.out # Panic

\* A path with its "." and ".." components resolved, as the file system
\* resolves them.
RECURSIVE Resolved(_, _)
Resolved(path, out) ==
    IF path = <<>> THEN out
    ELSE IF Head(path) = "." THEN Resolved(Tail(path), out)
    ELSE IF Head(path) = RootDir THEN Resolved(Tail(path), <<RootDir>>)
    ELSE IF Head(path) = ".." /\ out # <<>> /\ Last(out) \notin {"..", RootDir}
    THEN Resolved(Tail(path), Front(out))
    ELSE IF Head(path) = ".." /\ out # <<>> /\ Last(out) = RootDir
    THEN Resolved(Tail(path), out)
    ELSE Resolved(Tail(path), Append(out, Head(path)))
InsideOutputDir(path) == IsPrefix(OutputDir, Resolved(path, <<>>))

\* C20: every file written during the run lies inside the Output
\* Directory, whatever URIs the manifests hold ("..", a leading "/", an
\* absolute URL).
C20_WritesInsideOutputDir ==
    /\ \A w \in written : InsideOutputDir(w.path)
    /\ \A f \in fs : InsideOutputDir(f.path)

====
